---- MODULE Spec2Model ----
(***************************************************************************)
(* A model of the web crawler of src/src/main.rs: the discovery pipeline   *)
(* of run_crawler (robots.txt, recursive sitemap expansion, native crawl), *)
(* the robots.txt parser and the HTML to Markdown converter.               *)
(*                                                                         *)
(* Text is modelled as a sequence of one-character strings, so that the    *)
(* string operations of the source (trim, starts_with, ends_with, split)   *)
(* are computed character by character as the source computes them.        *)
(***************************************************************************)
EXTENDS Integers, Sequences, FiniteSets, TLC

VARIABLES
    \* ---- parse_robots_txt on its own (SpecRobots)
    rb_content,      \* the robots.txt content handed to parse_robots_txt
    rb_sitemaps,     \* the Vec<String> it returns
    rb_pc,           \* "call" before the call, "returned" after it
    \* ---- html_to_markdown on its own (SpecConv)
    html,            \* chars: the input, as a sequence of characters
    i,               \* the scan index (0-based, as in the source)
    in_tag,          \* Option<String>: NoTag or the tag name
    current_content, \* the text buffer
    markdown,        \* the output built so far
    cv_pc,           \* "loop" while scanning, "returned" after the final flush
    \* ---- save_markdown on its own (SpecSave)
    sv_url,          \* the URL handed to save_markdown
    sv_files,        \* the output directory after the call
    sv_pc,           \* "call" before the call, "returned" after it
    \* ---- run_crawler (Spec)
    world,           \* what the Fetcher collaborator answers in this run
    domain_arg,      \* the argument of run_crawler
    domain,          \* the normalized domain
    pc,              \* position in run_crawler
    sitemap_urls,    \* result of get_sitemap_urls_from_robots
    branch,          \* "A" robots sitemaps, "B" guessed sitemap, "C" native crawl
    roots,           \* the slice handed to get_all_page_urls_from_sitemaps
    idx,             \* position of its for loop (1-based, next to process)
    stack,           \* call stack of parse_sitemap_recursive frames
    ret,             \* value returned by the call that just ended: "none" | "ok" | "err"
    all_urls,        \* the HashSet accumulator
    page_urls,       \* the final page set
    processed,       \* history: the URLs the processing loop has attempted, in order
    loaded,          \* history: URLs whose load_html succeeded
    files,           \* the output directory: one [name, content] per file
    fetched,         \* history: sitemap URLs fetched by parse_sitemap_recursive, in order
    native_calls,    \* history: configurations of the native crawls made
    result,          \* "running" | "ok" | "err" | "overflow"
    xml_error        \* history: a parser error was met during expansion

robots_vars == <<rb_content, rb_sitemaps, rb_pc>>
conv_vars == <<html, i, in_tag, current_content, markdown, cv_pc>>
crawl_vars == <<world, domain_arg, domain, pc, sitemap_urls, branch, roots, idx, stack,
                ret, all_urls, page_urls, processed, loaded, files, fetched,
                native_calls, result, xml_error>>
save_vars == <<sv_url, sv_files, sv_pc>>
vars == <<robots_vars, conv_vars, crawl_vars, save_vars>>

-----------------------------------------------------------------------------
(* Characters and the string operations of the Rust standard library.      *)

UpperCase == <<"A","B","C","D","E","F","G","H","I","J","K","L","M",
               "N","O","P","Q","R","S","T","U","V","W","X","Y","Z">>
LowerCase == <<"a","b","c","d","e","f","g","h","i","j","k","l","m",
               "n","o","p","q","r","s","t","u","v","w","x","y","z">>

Range(seq) == {seq[k] : k \in 1..Len(seq)}

\* char::to_ascii_lowercase / the per-character part of str::to_lowercase
ToLowerChar(c) ==
    IF \E k \in 1..Len(UpperCase) : UpperCase[k] = c
    THEN LowerCase[CHOOSE k \in 1..Len(UpperCase) : UpperCase[k] = c]
    ELSE c

\* str::to_lowercase
ToLowercase(s) == [k \in 1..Len(s) |-> ToLowerChar(s[k])]

\* the characters of the model for which char::is_whitespace holds
Whitespace == {" ", "\t", "\n"}

\* str::starts_with
StartsWith(s, p) == Len(s) >= Len(p) /\ SubSeq(s, 1, Len(p)) = p

\* str::ends_with
EndsWith(s, p) == Len(s) >= Len(p) /\ SubSeq(s, Len(s) - Len(p) + 1, Len(s)) = p

\* the number of leading characters of s that are in the set cs
LeadingCount(s, cs) ==
    LET stops == {k \in 1..Len(s) : s[k] \notin cs}
    IN  IF stops = {} THEN Len(s)
        ELSE (CHOOSE k \in stops : \A m \in stops : k <= m) - 1

\* the number of trailing characters of s that are in the set cs
TrailingCount(s, cs) ==
    LET stops == {k \in 1..Len(s) : s[k] \notin cs}
    IN  IF stops = {} THEN Len(s)
        ELSE Len(s) - (CHOOSE k \in stops : \A m \in stops : k >= m)

\* str::trim_start_matches, the pattern given as the set of characters it matches
TrimStartMatches(s, cs) == SubSeq(s, LeadingCount(s, cs) + 1, Len(s))

\* str::trim_end_matches, likewise
TrimEndMatches(s, cs) == SubSeq(s, 1, Len(s) - TrailingCount(s, cs))

\* str::trim
Trim(s) ==
    LET lead == LeadingCount(s, Whitespace)
    IN  IF lead = Len(s) THEN <<>>
        ELSE SubSeq(s, lead + 1, Len(s) - TrailingCount(s, Whitespace))

\* the position of the first occurrence of c in s, or 0
IndexOf(s, c) ==
    LET hits == {k \in 1..Len(s) : s[k] = c}
    IN  IF hits = {} THEN 0 ELSE CHOOSE k \in hits : \A m \in hits : k <= m

\* str::lines: split at "\n", the final line ending being optional
RECURSIVE Lines(_)
Lines(s) ==
    IF s = <<>> THEN <<>>
    ELSE LET k == IndexOf(s, "\n")
         IN  IF k = 0 THEN <<s>>
             ELSE <<SubSeq(s, 1, k - 1)>> \o Lines(SubSeq(s, k + 1, Len(s)))

\* str::split with one character: always at least one piece
RECURSIVE Split(_, _)
Split(s, c) ==
    LET k == IndexOf(s, c)
    IN  IF k = 0 THEN <<s>>
        ELSE <<SubSeq(s, 1, k - 1)>> \o Split(SubSeq(s, k + 1, Len(s)), c)

\* the concatenation of a sequence of strings
RECURSIVE Concat(_)
Concat(ss) == IF ss = <<>> THEN <<>> ELSE Head(ss) \o Concat(Tail(ss))

\* the strings made of at most n pieces of P
RECURSIVE PieceSeqs(_, _)
PieceSeqs(P, n) ==
    IF n = 0 THEN {<<>>}
    ELSE LET shorter == PieceSeqs(P, n - 1)
         IN  shorter \cup {s \o <<p>> : s \in shorter, p \in P}

-----------------------------------------------------------------------------
(* parse_robots_txt                                                        *)

S_sitemap_colon == <<"s","i","t","e","m","a","p",":">>

\* the characters the closure of line 110 matches
WhitespaceOrS ==
    Whitespace \cup {c \in Range(UpperCase) \cup Range(LowerCase) : ToLowerChar(c) = "s"}

\* lines 106-114: filter the lines, then map each kept line
ParseRobotsTxt(content) ==
    LET kept == SelectSeq(Lines(content),
                          LAMBDA line : StartsWith(ToLowercase(line), S_sitemap_colon))
    IN  [k \in 1..Len(kept) |-> Trim(TrimStartMatches(kept[k], WhitespaceOrS))]

\* the robots.txt of the specification's example (section 8)
RobotsExample ==
    <<"S","I","T","E","M","A","P",":"," ","h","t","t","p",":","/","/","x","/","a",".","x","m","l">> \o <<"\n">> \o
    <<"S","i","t","e","m","a","p",":","h","t","t","p",":","/","/","x","/","b",".","x","m","l">> \o <<"\n">> \o
    <<"D","i","s","a","l","l","o","w",":"," ","/","p","r","i","v">>

-----------------------------------------------------------------------------
(* html_to_markdown                                                        *)

S_h1 == <<"h","1">>
S_h2 == <<"h","2">>
S_p == <<"p">>
S_li == <<"l","i">>
S_a == <<"a">>
S_img == <<"i","m","g">>
S_strong == <<"s","t","r","o","n","g">>
S_em == <<"e","m">>
S_blockquote == <<"b","l","o","c","k","q","u","o","t","e">>
S_br == <<"b","r">>
S_ul == <<"u","l">>
S_ol == <<"o","l">>

\* Option<String>: None is the empty sequence, Some(tag) is the tag name. The
\* source stores only the nine names of line 309, none of which is empty.
NoTag == <<>>

\* the names of line 309
RecognizedTags ==
    {S_h1, S_h2, S_p, S_li, S_a, S_img, S_strong, S_em, S_blockquote}

\* lines 269-290: what the flush at '<' pushes to markdown
FlushText(tag, content) ==
    LET c == Trim(content)
    IN  IF c = <<>> THEN <<>>
        ELSE CASE tag = S_h1 -> <<"#", " ">> \o c \o <<"\n", "\n">>
               [] tag = S_h2 -> <<"#", "#", " ">> \o c \o <<"\n", "\n">>
               [] tag = S_p -> c \o <<"\n", "\n">>
               [] tag = S_li -> <<"-", " ">> \o c \o <<"\n">>
               [] tag = S_a -> <<"[">> \o c \o <<"]", "(">> \o c \o <<")">>
               [] tag = S_img -> <<"!","[","I","m","a","g","e","]","(">> \o c \o <<")", "\n">>
               [] tag = S_strong -> <<"*", "*">> \o c \o <<"*", "*">>
               [] tag = S_em -> <<"*">> \o c \o <<"*">>
               [] tag = S_blockquote -> <<">", " ">> \o c \o <<"\n", "\n">>
               [] OTHER -> c \o <<"\n">>

\* lines 296-299: the 0-based index at which the tag name stops
RECURSIVE TagNameEnd(_, _)
TagNameEnd(chars, k) ==
    IF k < Len(chars) /\ chars[k + 1] # ">" /\ chars[k + 1] # " "
    THEN TagNameEnd(chars, k + 1)
    ELSE k

\* lines 300-302: the 0-based index at which the attribute skip stops
RECURSIVE TagEnd(_, _)
TagEnd(chars, k) ==
    IF k < Len(chars) /\ chars[k + 1] # ">" THEN TagEnd(chars, k + 1) ELSE k

\* mutant: a closing tag leaves the TagContext as it was
TagContextAfter_KeepOnClose(tag, old) ==
    IF StartsWith(tag, <<"/">>) THEN old
    ELSE IF tag \in RecognizedTags THEN tag
    ELSE IF tag \in {S_br, S_ul, S_ol} THEN old
    ELSE NoTag

\* lines 305-316: the TagContext after a tag
TagContextAfter(tag, old) ==
    IF StartsWith(tag, <<"/">>) THEN NoTag
    ELSE IF tag \in RecognizedTags THEN tag
    ELSE IF tag \in {S_br, S_ul, S_ol} THEN old
    ELSE NoTag

\* mutant: only br pushes a line break
TagOutput_BrOnly(tag) ==
    IF tag = S_br THEN <<"\n">> ELSE <<>>

\* lines 312-313: what a tag itself pushes to markdown
TagOutput(tag) ==
    IF ~StartsWith(tag, <<"/">>) /\ tag \in {S_br, S_ul, S_ol} THEN <<"\n">> ELSE <<>>

\* mutant: the tag sets the context before the buffered text is flushed
StepTag_ContextFirst(chars, st) ==
    LET nameEnd == TagNameEnd(chars, st.i + 1)
        tag == SubSeq(chars, st.i + 2, nameEnd)
        close == TagEnd(chars, nameEnd)
    IN  [i |-> close + 1,
         in_tag |-> TagContextAfter(tag, st.in_tag),
         current_content |-> <<>>,
         markdown |-> st.markdown
                      \o FlushText(TagContextAfter(tag, st.in_tag), st.current_content)
                      \o TagOutput(tag)]

\* lines 267-316: one iteration of the loop at a '<'
StepTag(chars, st) ==
    LET nameEnd == TagNameEnd(chars, st.i + 1)
        tag == SubSeq(chars, st.i + 2, nameEnd)
        close == TagEnd(chars, nameEnd)
    IN  [i |-> close + 1,
         in_tag |-> TagContextAfter(tag, st.in_tag),
         current_content |-> <<>>,
         markdown |-> st.markdown \o FlushText(st.in_tag, st.current_content)
                                  \o TagOutput(tag)]

\* mutant: the character is buffered but the index is not advanced
StepChar_NoAdvance(chars, st) ==
    [st EXCEPT !.current_content = Append(@, chars[st.i + 1])]

\* lines 317-320: one iteration of the loop at any other character
StepChar(chars, st) ==
    [st EXCEPT !.current_content = Append(@, chars[st.i + 1]), !.i = @ + 1]

\* lines 323-326: the flush after the loop
FinalFlush(st) ==
    IF Trim(st.current_content) # <<>>
    THEN st.markdown \o Trim(st.current_content) \o <<"\n">>
    ELSE st.markdown

\* lines 260-263: the state the loop starts in
ConvStart == [i |-> 0, in_tag |-> NoTag, current_content |-> <<>>, markdown |-> <<>>]

\* lines 266-321: the loop, from state st
RECURSIVE ConvLoop(_, _)
ConvLoop(chars, st) ==
    IF st.i < Len(chars)
    THEN ConvLoop(chars, IF chars[st.i + 1] = "<" THEN StepTag(chars, st)
                                                  ELSE StepChar(chars, st))
    ELSE st

\* html_to_markdown as a function of its input
HtmlToMarkdown(chars) == FinalFlush(ConvLoop(chars, ConvStart))

Angle(tag) == <<"<">> \o tag \o <<">">>

\* the inputs of the specification's examples (section 8)
HtmlLink == <<"<","a",">","l","a","b","e","l","<","/","a",">">>
HtmlHeading == <<"<","h","1",">","T","i","t","l","e","<","/","h","1",">","<","p",">","H","e","l","l","o"," ","<","s","t","r","o","n","g",">","w","o","r","l","d","<","/","s","t","r","o","n","g",">","<","/","p",">">>
HtmlList == <<"<","u","l",">","<","l","i",">","a","<","/","l","i",">","<","l","i",">","b","<","/","l","i",">","<","/","u","l",">">>
HtmlNested == <<"<","p",">","H","e","l","l","o"," ","<","s","t","r","o","n","g",">","w","o","r","l","d","<","/","s","t","r","o","n","g",">"," ","t","a","i","l","<","/","p",">">>
HtmlOpenHeading == <<"<","h","1",">","T","i","t","l","e">>
\* an input that ends inside a tag
HtmlOpenAttribute == <<"<","a"," ","h","r","e","f">>
HtmlBreak == <<"<","p",">","a","<","b","r",">","b","<","/","p",">">>

-----------------------------------------------------------------------------
(* Inputs of the two pure functions                                        *)

MaxRobotsLines == 2
MaxPieces == 3

S_a_xml == <<"a",".","x","m","l">>
S_b_xml == <<"b",".","x","m","l">>

\* robots.txt lines: optional leading blank, a directive in three spellings or
\* another directive, optional blank, a URL
RobotsLines ==
    {lead \o key \o gap \o url :
        lead \in {<<>>, <<" ">>},
        key \in {<<"s","i","t","e","m","a","p",":">>,
                 <<"S","I","T","E","M","A","P",":">>,
                 <<"S","i","t","e","m","a","p",":">>,
                 <<"D","i","s","a","l","l","o","w",":">>},
        gap \in {<<>>, <<" ">>},
        url \in {S_a_xml, S_b_xml}}

\* the lines joined by "\n"
RECURSIVE JoinLines(_)
JoinLines(ls) ==
    IF ls = <<>> THEN <<>>
    ELSE IF Len(ls) = 1 THEN ls[1]
    ELSE ls[1] \o <<"\n">> \o JoinLines(Tail(ls))

RobotsContents ==
    {JoinLines(ls) : ls \in PieceSeqs(RobotsLines, MaxRobotsLines)} \cup {RobotsExample}

\* markup pieces: the nine recognized tags, a closing tag, the void tags, an
\* unknown tag, a tag with an attribute, unterminated tags and text
ConvPieces ==
    {Angle(t) : t \in RecognizedTags} \cup
    {Angle(<<"/">> \o S_p), Angle(S_br), Angle(S_ul), Angle(S_ol),
     Angle(<<"d","i","v">>), <<"<","a"," ","h","r","e","f",">">>,
     <<"<">>, <<"<", "p">>, <<" ", "w", " ">>, <<" ">>}

ConvInputs ==
    {Concat(ps) : ps \in PieceSeqs(ConvPieces, MaxPieces)} \cup
    {HtmlLink, HtmlHeading, HtmlList, HtmlNested, HtmlOpenHeading, HtmlOpenAttribute,
     HtmlBreak}

-----------------------------------------------------------------------------
(* The Fetcher collaborator and the XML reader, as run_crawler sees them   *)

MaxDepth == 4

S_loc == <<"l","o","c">>
S_lastmod == <<"l","a","s","t","m","o","d">>
S_dot_xml == <<".","x","m","l">>
S_robots_path == <<"/","r","o","b","o","t","s",".","t","x","t">>
S_sitemap_path == <<"/","s","i","t","e","m","a","p",".","x","m","l">>
S_dot_md == <<".","m","d">>

\* Website::scrape then get_pages: None, an empty page list, or a first page
FetchFailed == [kind |-> "fail", html |-> <<>>, events |-> <<>>]
NoPages == [kind |-> "nopages", html |-> <<>>, events |-> <<>>]
RobotsPage(content) == [kind |-> "page", html |-> content, events |-> <<>>]
SitemapPage(evs) == [kind |-> "page", html |-> <<>>, events |-> evs]

\* quick_xml events, in the order read_event_into returns them; Eof is the end
\* of the sequence. "BadText" is a Text event whose unescape() fails, "Err" is
\* the Err of read_event_into, "Other" is any event the match ignores.
EvStart(name) == [t |-> "Start", v |-> name]
EvText(text) == [t |-> "Text", v |-> text]
EvEnd(name) == [t |-> "End", v |-> name]
EvBadText == [t |-> "BadText", v |-> <<>>]
EvErr == [t |-> "Err", v |-> <<>>]
EvOther == [t |-> "Other", v |-> <<>>]

\* <loc>u</loc>, <loc></loc> and <lastmod>x</lastmod>
Loc(u) == <<EvStart(S_loc), EvText(u), EvEnd(S_loc)>>
EmptyLoc == <<EvStart(S_loc), EvEnd(S_loc)>>
LastMod(x) == <<EvStart(S_lastmod), EvText(x), EvEnd(S_lastmod)>>

\* what the Fetcher answers for a sitemap URL in world w
FetchSitemap(w, url) ==
    IF url \in DOMAIN w.sitemaps THEN w.sitemaps[url] ELSE FetchFailed

\* what the Fetcher answers for the robots.txt URL in world w
FetchRobots(w, url) == IF url = w.robots_url THEN w.robots ELSE FetchFailed

-----------------------------------------------------------------------------
(* run_crawler and the functions it calls                                  *)

\* line 19
NormalizeDomain(d) == TrimEndMatches(d, {"/"})

\* get_sitemap_urls_from_robots, lines 78-102
GetSitemapUrlsFromRobots(w, dom) ==
    LET out == FetchRobots(w, dom \o S_robots_path)
    IN  IF out.kind = "page" THEN ParseRobotsTxt(out.html) ELSE <<>>

\* mutant: the test of line 31 inverted
RobotsBranch_Inverted(urls) == urls = <<>>

\* line 31: robots declared sitemaps, so branch A
RobotsBranch(urls) == urls # <<>>

\* lines 31-41: the sitemaps handed to get_all_page_urls_from_sitemaps
ExpansionRoots(dom, urls) ==
    IF RobotsBranch(urls) THEN urls ELSE <<dom \o S_sitemap_path>>

\* lines 152-154: the state parse_sitemap_recursive parses a fetched page from
Frame(url, evs) ==
    [url |-> url, events |-> evs, pos |-> 1, in_loc |-> FALSE, current_url |-> <<>>]

\* mutant: a failed fetch is returned as an error
EnterSitemap_FetchFatal(w, stk, url) ==
    LET out == FetchSitemap(w, url)
    IN  IF out.kind = "page"
        THEN [stack |-> Append(stk, Frame(url, out.events)), ret |-> "none"]
        ELSE [stack |-> stk, ret |-> "err"]

\* lines 137-155 and 193-200: the call fetches; a page is parsed in a new
\* frame, anything else makes the call return Ok at once
EnterSitemap(w, stk, url) ==
    LET out == FetchSitemap(w, url)
    IN  IF out.kind = "page"
        THEN [stack |-> Append(stk, Frame(url, out.events)), ret |-> "none"]
        ELSE [stack |-> stk, ret |-> "ok"]

\* mutant: every reference is taken for a page
IsNestedSitemap_Never(url) == FALSE

\* line 172: a sitemap index reference
IsNestedSitemap(url) == EndsWith(url, S_dot_xml)

\* line 170: the </loc> that closes a reference
ClosesReference(f, ev) == ev.t = "End" /\ ev.v = S_loc /\ f.current_url # <<>>

Top == stack[Len(stack)]
AtEof(f) == f.pos > Len(f.events)
Event(f) == f.events[f.pos]
SetTop(stk, f) == [stk EXCEPT ![Len(stk)] = f]
Pop(stk) == SubSeq(stk, 1, Len(stk) - 1)

\* the next step of the top frame is the recursive call of line 175
AtRecursiveCall ==
    /\ stack # <<>> /\ ret = "none" /\ ~AtEof(Top)
    /\ ClosesReference(Top, Event(Top)) /\ IsNestedSitemap(Top.current_url)

\* mutant: the fallback is taken whenever the page set is empty, in any branch
NeedsNativeCrawl_AnyBranch(br, urls) == urls = {}

\* mutant: the fallback is taken whenever robots declared nothing
NeedsNativeCrawl_Always(br, urls) == br = "B"

\* lines 43-50: after the guessed sitemap, fall back to the native crawl
NeedsNativeCrawl(br, urls) == br = "B" /\ urls = {}

\* line 126: what get_all_page_urls_from_sitemaps does with the call's result
LoopPropagates(r) == r = "err"

\* mutant: the nested call's error is dropped
NestedPropagates_Swallow(r) == FALSE

\* line 175: what parse_sitemap_recursive does with the nested call's result
NestedPropagates(r) == r = "err"

CrawlDepth == 3
CrawlDelay == 100

\* save_markdown, lines 342-348: the file name of a URL
FileName(url) ==
    LET parts == Split(TrimEndMatches(url, {"/"}), "/")
    IN  parts[Len(parts)] \o S_dot_md

-----------------------------------------------------------------------------
(* The worlds a run is checked in                                          *)

S_h == <<"h">>
\* nested sitemaps and pages
U_c == <<"c",".","x","m","l">>
U_d == <<"d",".","x","m","l">>
U_p == <<"h","/","p">>
U_q == <<"h","/","q","/">>
U_r == <<"r">>
S_t == <<"t">>
\* <root>/sitemap.xml and <root>/robots.txt for the root "h"
U_guess == <<"h","/","s","i","t","e","m","a","p",".","x","m","l">>
U_robots == <<"h","/","r","o","b","o","t","s",".","t","x","t">>
\* The Fetcher answers whatever string it is handed. These two are the strings
\* parse_robots_txt returns for the lines "sitemap:a.xml" and "Sitemap:b.xml".
U_ra == <<"i","t","e","m","a","p",":","a",".","x","m","l">>
U_rb == <<"i","t","e","m","a","p",":","b",".","x","m","l">>

DomainArgs == {S_h, S_h \o <<"/">>, S_h \o <<"/", "/">>}

RobotsAnswers ==
    {FetchFailed, NoPages,
     RobotsPage(<<"D","i","s","a","l","l","o","w",":","/","p">>),
     RobotsPage(<<"s","i","t","e","m","a","p",":","a",".","x","m","l">>),
     RobotsPage(<<"s","i","t","e","m","a","p",":","a",".","x","m","l">> \o <<"\n">> \o <<"S","i","t","e","m","a","p",":","b",".","x","m","l">>),
     RobotsPage(<<"s","i","t","e","m","a","p",":","a",".","x","m","l">> \o <<"\n">> \o <<"s","i","t","e","m","a","p",":","a",".","x","m","l">>),
     RobotsPage(RobotsExample)}

\* a site: the first robots sitemap and the guessed sitemap hold the same
\* document, so that every graph is met in branch A and in branch B
Site(root, second, c, d) ==
    [u \in {U_ra, U_guess, U_rb, U_c, U_d} |->
        IF u \in {U_ra, U_guess} THEN root
        ELSE IF u = U_rb THEN second
        ELSE IF u = U_c THEN c ELSE d]

\* a tree, with a page listed twice
SiteTree ==
    Site(SitemapPage(Loc(U_p) \o LastMod(S_t) \o Loc(U_c) \o Loc(U_q)),
         SitemapPage(Loc(U_q)),
         SitemapPage(<<EvOther>> \o Loc(U_r) \o Loc(U_p)), FetchFailed)

\* acyclic, c.xml referenced from two indexes
SiteShared ==
    Site(SitemapPage(Loc(U_c) \o Loc(U_d)), SitemapPage(Loc(U_c)),
         SitemapPage(Loc(U_p)), SitemapPage(Loc(U_c) \o Loc(U_q)))

\* a cycle c.xml -> d.xml -> c.xml, and a sitemap that references itself
SiteCycle ==
    Site(SitemapPage(Loc(U_p) \o Loc(U_c)), SitemapPage(Loc(U_rb)),
         SitemapPage(Loc(U_d)), SitemapPage(Loc(U_c)))

\* a nested sitemap whose fetch fails, between siblings
SiteFailedSibling ==
    Site(SitemapPage(Loc(U_c) \o Loc(U_d) \o Loc(U_p)), NoPages,
         FetchFailed, SitemapPage(Loc(U_q)))

\* a malformed nested sitemap
SiteMalformedNested ==
    Site(SitemapPage(Loc(U_p) \o Loc(U_c) \o Loc(U_q)), SitemapPage(Loc(U_r)),
         SitemapPage(Loc(U_r) \o <<EvErr>>), SitemapPage(Loc(U_q)))

\* a malformed second sitemap
SiteMalformedSecond ==
    Site(SitemapPage(Loc(U_p)), SitemapPage(<<EvOther, EvErr>>),
         FetchFailed, FetchFailed)

\* text that cannot be unescaped, outside and inside <loc>
SiteBadText ==
    Site(SitemapPage(<<EvBadText>> \o Loc(U_q) \o <<EvStart(S_loc), EvBadText>>),
         SitemapPage(Loc(U_r)), FetchFailed, FetchFailed)

\* sitemaps without references
SiteNoReferences ==
    Site(SitemapPage(<<EvOther>>), SitemapPage(<<>>), FetchFailed, FetchFailed)

\* nothing is served
SiteDown == Site(FetchFailed, FetchFailed, FetchFailed, FetchFailed)

\* empty <loc></loc> elements around a <lastmod>
SiteEmptyLoc ==
    Site(SitemapPage(EmptyLoc \o LastMod(S_t) \o EmptyLoc \o Loc(U_p)),
         SitemapPage(Loc(U_q)), FetchFailed, FetchFailed)

Sites ==
    {SiteTree, SiteShared, SiteCycle, SiteFailedSibling, SiteMalformedNested,
     SiteMalformedSecond, SiteBadText, SiteNoReferences, SiteDown, SiteEmptyLoc}

LinkSets == {{}, {U_p, U_r}}

Worlds ==
    {[robots_url |-> U_robots, robots |-> r, sitemaps |-> s, links |-> l] :
        r \in RobotsAnswers, s \in Sites, l \in LinkSets}

\* what load_html can get for a page: no pages, an empty list, or the markup
LoadAnswers == {FetchFailed, NoPages, RobotsPage(HtmlLink)}

-----------------------------------------------------------------------------
(* Initial states                                                          *)

RobotsIdle == rb_content = <<>> /\ rb_sitemaps = <<>> /\ rb_pc = "idle"

ConvIdle ==
    /\ html = <<>> /\ i = 0 /\ in_tag = NoTag /\ current_content = <<>>
    /\ markdown = <<>> /\ cv_pc = "idle"

SaveIdle == sv_url = <<>> /\ sv_files = {} /\ sv_pc = "idle"

CrawlState(w, d, p) ==
    /\ world = w /\ domain_arg = d /\ domain = <<>> /\ pc = p
    /\ sitemap_urls = <<>> /\ branch = "none" /\ roots = <<>> /\ idx = 1
    /\ stack = <<>> /\ ret = "none" /\ all_urls = {} /\ page_urls = {}
    /\ processed = <<>> /\ loaded = {} /\ files = {} /\ fetched = <<>>
    /\ native_calls = <<>> /\ result = "running" /\ xml_error = FALSE

CrawlIdle ==
    CrawlState([robots_url |-> U_robots, robots |-> FetchFailed,
                sitemaps |-> SiteDown,
                links |-> {}], <<>>, "idle")

\* run_crawler is called with a domain, in some world
Init ==
    /\ \E w \in Worlds, d \in DomainArgs : CrawlState(w, d, "start")
    /\ RobotsIdle /\ ConvIdle /\ SaveIdle

\* parse_robots_txt is called with some content
InitRobots ==
    /\ rb_content \in RobotsContents /\ rb_sitemaps = <<>> /\ rb_pc = "call"
    /\ ConvIdle /\ CrawlIdle /\ SaveIdle

\* html_to_markdown is called with some markup
InitConv ==
    /\ html \in ConvInputs
    /\ i = ConvStart.i /\ in_tag = ConvStart.in_tag
    /\ current_content = ConvStart.current_content
    /\ markdown = ConvStart.markdown /\ cv_pc = "loop"
    /\ RobotsIdle /\ CrawlIdle /\ SaveIdle

-----------------------------------------------------------------------------
(* parse_robots_txt, one call                                              *)

ParseRobotsCall ==
    /\ rb_pc = "call"
    /\ rb_sitemaps' = ParseRobotsTxt(rb_content)
    /\ rb_pc' = "returned"
    /\ UNCHANGED <<rb_content, conv_vars, crawl_vars, save_vars>>

NextRobots == ParseRobotsCall

SpecRobots == InitRobots /\ [][NextRobots]_vars

-----------------------------------------------------------------------------
(* html_to_markdown, one loop iteration per step                           *)

ConvState == [i |-> i, in_tag |-> in_tag, current_content |-> current_content,
              markdown |-> markdown]

ConvSet(st) ==
    /\ i' = st.i /\ in_tag' = st.in_tag
    /\ current_content' = st.current_content /\ markdown' = st.markdown

\* lines 266-316
ConvTag ==
    /\ cv_pc = "loop" /\ i < Len(html) /\ html[i + 1] = "<"
    /\ ConvSet(StepTag(html, ConvState))
    /\ UNCHANGED <<html, cv_pc, robots_vars, crawl_vars,
                   save_vars>>

\* lines 266, 317-320
ConvChar ==
    /\ cv_pc = "loop" /\ i < Len(html) /\ html[i + 1] # "<"
    /\ ConvSet(StepChar(html, ConvState))
    /\ UNCHANGED <<html, cv_pc, robots_vars, crawl_vars,
                   save_vars>>

\* lines 323-332
ConvReturn ==
    /\ cv_pc = "loop" /\ i >= Len(html)
    /\ markdown' = FinalFlush(ConvState)
    /\ cv_pc' = "returned"
    /\ UNCHANGED <<html, i, in_tag, current_content, robots_vars, crawl_vars,
                   save_vars>>

NextConv == ConvTag \/ ConvChar \/ ConvReturn

SpecConv == InitConv /\ [][NextConv]_vars

-----------------------------------------------------------------------------
(* run_crawler                                                             *)

\* lines 19-41: normalize, read robots.txt, choose the sitemaps to expand
RobotsStep ==
    /\ pc = "start"
    /\ LET dom == NormalizeDomain(domain_arg)
           urls == GetSitemapUrlsFromRobots(world, dom)
       IN  /\ domain' = dom
           /\ sitemap_urls' = urls
           /\ branch' = IF RobotsBranch(urls) THEN "A" ELSE "B"
           /\ roots' = ExpansionRoots(dom, urls)
    /\ idx' = 1 /\ all_urls' = {} /\ pc' = "expand"
    /\ UNCHANGED <<world, domain_arg, stack, ret, page_urls, processed, loaded, files,
                   fetched, native_calls, result, xml_error, robots_vars, conv_vars,
                   save_vars>>

\* lines 124-126: the for loop calls parse_sitemap_recursive on the next sitemap
LoopCall ==
    /\ pc = "expand" /\ stack = <<>> /\ ret = "none" /\ idx <= Len(roots)
    /\ LET call == EnterSitemap(world, stack, roots[idx])
       IN  stack' = call.stack /\ ret' = call.ret
    /\ fetched' = Append(fetched, roots[idx])
    /\ idx' = idx + 1
    /\ UNCHANGED <<world, domain_arg, domain, pc, sitemap_urls, branch, roots, all_urls,
                   page_urls, processed, loaded, files, native_calls, result, xml_error,
                   robots_vars, conv_vars,
                   save_vars>>

\* line 126 (the ?), then lines 33 and 41 (the ?): an Err ends run_crawler
LoopReturn ==
    /\ pc = "expand" /\ stack = <<>> /\ ret # "none"
    /\ IF LoopPropagates(ret)
       THEN pc' = "done" /\ result' = "err"
       ELSE UNCHANGED <<pc, result>>
    /\ ret' = "none"
    /\ UNCHANGED <<world, domain_arg, domain, sitemap_urls, branch, roots, idx, stack,
                   all_urls, page_urls, processed, loaded, files, fetched, native_calls,
                   xml_error, robots_vars, conv_vars,
                   save_vars>>

\* lines 128-129, then lines 33-50: the expansion is over
LoopDone ==
    /\ pc = "expand" /\ stack = <<>> /\ ret = "none" /\ idx > Len(roots)
    /\ IF NeedsNativeCrawl(branch, all_urls)
       THEN pc' = "native" /\ branch' = "C" /\ UNCHANGED page_urls
       ELSE pc' = "process" /\ page_urls' = all_urls /\ UNCHANGED branch
    /\ UNCHANGED <<world, domain_arg, domain, sitemap_urls, roots, idx, stack, ret,
                   all_urls, processed, loaded, files, fetched, native_calls, result,
                   xml_error, robots_vars, conv_vars,
                   save_vars>>

\* lines 156-192: parse_sitemap_recursive reads one event
ReadEvent ==
    /\ pc = "expand" /\ stack # <<>> /\ ret = "none"
    /\ ~(AtRecursiveCall /\ Len(stack) >= MaxDepth)
    /\ LET f == Top
       IN  IF AtEof(f)
           THEN \* line 184, line 200
                /\ stack' = Pop(stack) /\ ret' = "ok"
                /\ UNCHANGED <<all_urls, fetched, xml_error>>
           ELSE LET ev == Event(f)
                    next == [f EXCEPT !.pos = @ + 1]
                IN  CASE ev.t = "Start" ->
                           /\ stack' = SetTop(stack,
                                   [next EXCEPT !.in_loc = (ev.v = S_loc) \/ @])
                           /\ UNCHANGED <<ret, all_urls, fetched, xml_error>>
                      [] ev.t = "Text" ->
                           /\ stack' = SetTop(stack,
                                   IF f.in_loc THEN [next EXCEPT !.current_url = ev.v]
                                               ELSE next)
                           /\ UNCHANGED <<ret, all_urls, fetched, xml_error>>
                      [] ev.t = "BadText" ->
                           IF f.in_loc
                           THEN \* line 165: unescape()? returns the error
                                /\ stack' = Pop(stack) /\ ret' = "err"
                                /\ xml_error' = TRUE
                                /\ UNCHANGED <<all_urls, fetched>>
                           ELSE /\ stack' = SetTop(stack, next)
                                /\ UNCHANGED <<ret, all_urls, fetched, xml_error>>
                      [] ev.t = "End" ->
                           IF ClosesReference(f, ev)
                           THEN IF IsNestedSitemap(f.current_url)
                                THEN \* line 175: the frame waits at this event
                                     LET call == EnterSitemap(world,
                                                   SetTop(stack, [f EXCEPT !.in_loc = FALSE]),
                                                   f.current_url)
                                     IN  /\ stack' = call.stack /\ ret' = call.ret
                                         /\ fetched' = Append(fetched, f.current_url)
                                         /\ UNCHANGED <<all_urls, xml_error>>
                                ELSE \* lines 178-181
                                     /\ all_urls' = all_urls \cup {f.current_url}
                                     /\ stack' = SetTop(stack,
                                             [next EXCEPT !.in_loc = FALSE,
                                                          !.current_url = <<>>])
                                     /\ UNCHANGED <<ret, fetched, xml_error>>
                           ELSE /\ stack' = SetTop(stack, next)
                                /\ UNCHANGED <<ret, all_urls, fetched, xml_error>>
                      [] ev.t = "Err" ->
                           \* lines 185-188
                           /\ stack' = Pop(stack) /\ ret' = "err"
                           /\ xml_error' = TRUE
                           /\ UNCHANGED <<all_urls, fetched>>
                      [] OTHER ->
                           /\ stack' = SetTop(stack, next)
                           /\ UNCHANGED <<ret, all_urls, fetched, xml_error>>
    /\ UNCHANGED <<world, domain_arg, domain, pc, sitemap_urls, branch, roots, idx,
                   page_urls, processed, loaded, files, native_calls, result,
                   robots_vars, conv_vars,
                   save_vars>>

\* line 175 (the ?) and line 181: the nested call has returned
NestedReturn ==
    /\ pc = "expand" /\ stack # <<>> /\ ret # "none"
    /\ IF NestedPropagates(ret)
       THEN stack' = Pop(stack) /\ UNCHANGED ret
       ELSE /\ stack' = SetTop(stack, [Top EXCEPT !.current_url = <<>>, !.pos = @ + 1])
            /\ ret' = "none"
    /\ UNCHANGED <<world, domain_arg, domain, pc, sitemap_urls, branch, roots, idx,
                   all_urls, page_urls, processed, loaded, files, fetched, native_calls,
                   result, xml_error, robots_vars, conv_vars,
                   save_vars>>

\* line 175 with the call stack exhausted: the process is aborted
StackOverflow ==
    /\ pc = "expand" /\ AtRecursiveCall /\ Len(stack) >= MaxDepth
    /\ pc' = "done" /\ result' = "overflow"
    /\ UNCHANGED <<world, domain_arg, domain, sitemap_urls, branch, roots, idx, stack,
                   ret, all_urls, page_urls, processed, loaded, files, fetched,
                   native_calls, xml_error, robots_vars, conv_vars,
                   save_vars>>

\* native_crawl, lines 204-220, and line 49
NativeCrawl ==
    /\ pc = "native"
    /\ native_calls' = Append(native_calls,
                              [root |-> domain, depth |-> CrawlDepth, delay |-> CrawlDelay])
    /\ page_urls' = world.links
    /\ pc' = "process"
    /\ UNCHANGED <<world, domain_arg, domain, sitemap_urls, branch, roots, idx, stack,
                   ret, all_urls, processed, loaded, files, fetched, result, xml_error,
                   robots_vars, conv_vars,
                   save_vars>>

\* save_markdown, lines 336-355: the output directory after a successful save
SaveMarkdown(fs, url, md) ==
    {f \in fs : f.name # FileName(url)} \cup {[name |-> FileName(url), content |-> md]}

\* mutant: a page that cannot be loaded ends run_crawler with the error
ProcessPage_AbortOnFailure ==
    /\ pc = "process"
    /\ \E url \in page_urls, answer \in LoadAnswers, saves \in BOOLEAN :
          /\ \A k \in 1..Len(processed) : processed[k] # url
          /\ processed' = Append(processed, url)
          /\ IF answer.kind = "page"
             THEN /\ loaded' = loaded \cup {url}
                  /\ files' = IF saves
                              THEN SaveMarkdown(files, url, HtmlToMarkdown(answer.html))
                              ELSE files
                  /\ UNCHANGED <<pc, result>>
             ELSE /\ pc' = "done" /\ result' = "err"
                  /\ UNCHANGED <<loaded, files>>
    /\ UNCHANGED <<world, domain_arg, domain, sitemap_urls, branch, roots, idx, stack,
                   ret, all_urls, page_urls, fetched, native_calls, xml_error,
                   robots_vars, conv_vars, save_vars>>

\* lines 59-72: one iteration of the processing loop
ProcessPage ==
    /\ pc = "process"
    /\ \E url \in page_urls, answer \in LoadAnswers, saves \in BOOLEAN :
          /\ \A k \in 1..Len(processed) : processed[k] # url
          /\ processed' = Append(processed, url)
          /\ IF answer.kind = "page"
             THEN /\ loaded' = loaded \cup {url}
                  /\ files' = IF saves
                              THEN SaveMarkdown(files, url, HtmlToMarkdown(answer.html))
                              ELSE files
             ELSE UNCHANGED <<loaded, files>>
    /\ UNCHANGED <<world, domain_arg, domain, pc, sitemap_urls, branch, roots, idx, stack,
                   ret, all_urls, page_urls, fetched, native_calls, result, xml_error,
                   robots_vars, conv_vars,
                   save_vars>>

\* line 74
Finish ==
    /\ pc = "process"
    /\ \A url \in page_urls : \E k \in 1..Len(processed) : processed[k] = url
    /\ pc' = "done" /\ result' = "ok"
    /\ UNCHANGED <<world, domain_arg, domain, sitemap_urls, branch, roots, idx, stack,
                   ret, all_urls, page_urls, processed, loaded, files, fetched,
                   native_calls, xml_error, robots_vars, conv_vars,
                   save_vars>>

Next ==
    \/ RobotsStep \/ LoopCall \/ LoopReturn \/ LoopDone \/ ReadEvent \/ NestedReturn
    \/ StackOverflow \/ NativeCrawl \/ ProcessPage \/ Finish

Spec == Init /\ [][Next]_vars

-----------------------------------------------------------------------------
(* What the sitemap documents of a world say, read independently of the    *)
(* expansion code                                                          *)

\* the text of every <loc>text</loc> element of a document
LocValues(evs) ==
    {evs[k].v : k \in {n \in 2..(Len(evs) - 1) :
                          /\ evs[n].t = "Text"
                          /\ evs[n - 1] = EvStart(S_loc)
                          /\ evs[n + 1] = EvEnd(S_loc)}}

\* the sitemaps a sitemap URL references
References(w, url) ==
    IF FetchSitemap(w, url).kind = "page"
    THEN {v \in LocValues(FetchSitemap(w, url).events) : EndsWith(v, S_dot_xml)}
    ELSE {}

\* the sitemap URLs reachable from the set S, S included
RECURSIVE Reachable(_, _)
Reachable(w, S) ==
    LET more == S \cup UNION {References(w, u) : u \in S}
    IN  IF more = S THEN S ELSE Reachable(w, more)

\* no sitemap reachable from S reaches itself
Acyclic(w, S) ==
    \A u \in Reachable(w, S) : u \notin Reachable(w, References(w, u))

\* every sitemap reachable from S is fetched and parses without an error
AllWellFormed(w, S) ==
    \A u \in Reachable(w, S) :
        /\ FetchSitemap(w, u).kind = "page"
        /\ \A k \in 1..Len(FetchSitemap(w, u).events) :
               FetchSitemap(w, u).events[k].t \notin {"Err", "BadText"}

\* the <loc> values of the sitemaps reachable from S that are no sitemap
PagesDeclared(w, S) ==
    {v \in UNION {LocValues(FetchSitemap(w, u).events) : u \in Reachable(w, S)} :
        ~EndsWith(v, S_dot_xml)}

\* get_all_page_urls_from_sitemaps has returned Ok
ExpansionCompleted == pc \in {"native", "process"} \/ (pc = "done" /\ result = "ok")

\* how often parse_sitemap_recursive fetched url and went on to parse it
TimesExpanded(url) ==
    Cardinality({k \in 1..Len(fetched) :
                    fetched[k] = url /\ FetchSitemap(world, url).kind = "page"})

-----------------------------------------------------------------------------
(* C1: sitemap expansion terminates on every finite sitemap graph whose    *)
(* documents are all fetched and well-formed, cycles included. In the      *)
(* model a recursion deeper than MaxDepth, which is deeper than any chain  *)
(* of distinct sitemaps of the worlds, ends the run with "overflow".       *)
C1_ExpansionTerminates ==
    (pc # "start" /\ AllWellFormed(world, Range(roots))) => result # "overflow"

(* C2: during one run no sitemap URL is expanded (fetched and parsed) more *)
(* than once.                                                              *)
C2_NoSitemapExpandedTwice ==
    \A k \in 1..Len(fetched) : TimesExpanded(fetched[k]) <= 1

(* C3: for an acyclic sitemap graph whose documents are all fetched and    *)
(* well-formed, the page set returned by get_all_page_urls_from_sitemaps   *)
(* is exactly the set of <loc> values not ending in ".xml" of the          *)
(* documents reachable from the starting sitemaps.                         *)
C3_PageSetIsDeclaredPages ==
    (/\ ExpansionCompleted
     /\ Acyclic(world, Range(roots))
     /\ AllWellFormed(world, Range(roots)))
    => all_urls = PagesDeclared(world, Range(roots))

\* C3 without the documents in which text outside <loc> precedes a </loc>
\* with no text of its own (the case of C16)
C3_HoldsWithoutEmptyLoc ==
    world.sitemaps # SiteEmptyLoc => C3_PageSetIsDeclaredPages

-----------------------------------------------------------------------------
(* The robots.txt rule as the specification words it                       *)

\* the line with leading whitespace ignored
IgnoreLeadingWhitespace(line) == TrimStartMatches(line, Whitespace)

\* the case-insensitive prefix of the line is "sitemap:"
IsSitemapLine(line) ==
    StartsWith(ToLowercase(IgnoreLeadingWhitespace(line)), S_sitemap_colon)

\* the line with the prefix and the surrounding whitespace removed
SitemapOfLine(line) ==
    LET l == IgnoreLeadingWhitespace(line)
    IN  Trim(SubSeq(l, Len(S_sitemap_colon) + 1, Len(l)))

DeclaredSitemaps(content) ==
    LET kept == SelectSeq(Lines(content), IsSitemapLine)
    IN  [k \in 1..Len(kept) |-> SitemapOfLine(kept[k])]

(* C4: parse_robots_txt returns, in order, one entry per line whose        *)
(* case-insensitive prefix (leading whitespace ignored) is "sitemap:", the *)
(* entry being the line without that prefix and surrounding whitespace.    *)
C4_RobotsParsing ==
    rb_pc = "returned" => rb_sitemaps = DeclaredSitemaps(rb_content)

-----------------------------------------------------------------------------
(* C5: whenever the robots step yields at least one sitemap URL, the final *)
(* page set is the expansion of exactly those sitemaps, also when it is    *)
(* empty; <root>/sitemap.xml is never fetched as a guess and the native    *)
(* crawl is never invoked.                                                 *)
C5_BranchACommits ==
    sitemap_urls # <<>> =>
        /\ branch = "A" /\ roots = sitemap_urls
        /\ pc # "native" /\ native_calls = <<>>
        /\ \A k \in 1..Len(fetched) : fetched[k] # domain \o S_sitemap_path
        /\ ExpansionCompleted => page_urls = all_urls

C5_Witness ==
    /\ sitemap_urls # <<>> /\ fetched # <<>>
    /\ pc = "done" /\ result = "ok" /\ page_urls = {}

(* C6: when the robots step yields no sitemap URL, <root>/sitemap.xml      *)
(* (root without trailing slashes) is expanded; a non-empty result is the  *)
(* final page set and no native crawl is made; the native crawl (depth 3,  *)
(* delay 100) is made if and only if robots yielded nothing and the        *)
(* guessed expansion completed empty, and its links are the page set.      *)
C6_GuessedThenNative ==
    LET guessed == pc # "start" /\ sitemap_urls = <<>>
    IN  /\ guessed =>
              /\ domain = S_h /\ roots = <<U_guess>>
              /\ fetched # <<>> => fetched[1] = U_guess
        /\ (guessed /\ ExpansionCompleted /\ all_urls # {}) =>
              /\ pc # "native" /\ native_calls = <<>>
              /\ page_urls = all_urls
        /\ pc = "native" => (sitemap_urls = <<>> /\ all_urls = {})
        /\ pc \in {"process", "done"} =>
              (native_calls # <<>>
                 <=> (sitemap_urls = <<>> /\ ExpansionCompleted /\ all_urls = {}))
        /\ native_calls # <<>> =>
              /\ native_calls = <<[root |-> S_h, depth |-> 3, delay |-> 100]>>
              /\ page_urls = world.links

C6_Witness ==
    /\ pc = "done" /\ result = "ok" /\ domain_arg # domain
    /\ native_calls # <<>> /\ page_urls # {} /\ Len(processed) = Cardinality(page_urls)

(* C7: a parser error in a sitemap at any depth is fatal: every enclosing  *)
(* call returns the error, run_crawler returns an error, no later sitemap  *)
(* is tried, no fallback is taken and no page is fetched, converted or     *)
(* saved.                                                                  *)
C7_AfterError ==
    xml_error =>
        /\ (pc = "expand" /\ ret = "err") \/ (pc = "done" /\ result = "err")
        /\ processed = <<>> /\ loaded = {} /\ files = {}
        /\ native_calls = <<>> /\ page_urls = {}

C7_Unwinding ==
    xml_error =>
        /\ fetched' = fetched /\ all_urls' = all_urls /\ idx' = idx
        /\ stack # <<>> => stack' = Pop(stack)
        /\ (stack = <<>> /\ pc = "expand") => (pc' = "done" /\ result' = "err")

C7_MalformedIsFatal == [](C7_AfterError) /\ [][C7_Unwinding]_vars

C7_Witness ==
    /\ xml_error /\ pc = "done" /\ result = "err"
    /\ Len(fetched) >= 2 /\ idx <= Len(roots) /\ all_urls # {}

(* C8: a failed fetch of a sitemap is recoverable: the call returns Ok and *)
(* leaves the accumulator as it was, the caller goes on with the next      *)
(* reference or sitemap, and the URLs of sibling sitemaps are collected.   *)
C8_FailedFetchStep ==
    (/\ fetched' # fetched
     /\ FetchSitemap(world, fetched'[Len(fetched')]).kind # "page")
    => /\ ret' = "ok" /\ all_urls' = all_urls
       /\ Len(stack') = Len(stack) /\ result' = result /\ xml_error' = xml_error

C8_CallerGoesOn ==
    ret = "ok" => (ret' = "none" /\ pc' = pc /\ result' = result /\ all_urls' = all_urls)

C8_SiblingsCollected ==
    (/\ world.sitemaps = SiteFailedSibling /\ ExpansionCompleted
     /\ roots[1] \in {U_ra, U_guess})
    => {U_p, U_q} \subseteq all_urls

C8_FetchFailureRecoverable ==
    [][C8_FailedFetchStep /\ C8_CallerGoesOn]_vars /\ [](C8_SiblingsCollected)

C8_Witness ==
    /\ world.sitemaps = SiteFailedSibling /\ pc = "done" /\ result = "ok"
    /\ U_c \in Range(fetched) /\ U_q \in page_urls

(* C9: a failed robots.txt fetch is not fatal: the robots step returns an  *)
(* empty list and the run goes on with the guessed <root>/sitemap.xml.     *)
C9_AfterFailedRobots ==
    (pc # "start" /\ world.robots.kind # "page") =>
        /\ sitemap_urls = <<>> /\ branch \in {"B", "C"}
        /\ roots = <<U_guess>>
        /\ fetched # <<>> => fetched[1] = U_guess

C9_RobotsStepGoesOn ==
    (pc = "start" /\ world.robots.kind # "page") => (pc' = "expand" /\ result' = "running")

C9_RobotsFailureNotFatal == [](C9_AfterFailedRobots) /\ [][C9_RobotsStepGoesOn]_vars

C9_Witness ==
    /\ world.robots.kind = "fail" /\ pc = "done" /\ result = "ok"
    /\ fetched # <<>> /\ fetched[1] = U_guess /\ page_urls # {}

-----------------------------------------------------------------------------
(* The formatting table of the specification (section 4.4), for trimmed    *)
(* text c                                                                  *)
TableFormat(tag, c) ==
    IF tag = <<"h","1">> THEN <<"#"," ">> \o c \o <<"\n", "\n">>
    ELSE IF tag = <<"h","2">> THEN <<"#","#"," ">> \o c \o <<"\n", "\n">>
    ELSE IF tag = <<"p">> THEN c \o <<"\n", "\n">>
    ELSE IF tag = <<"l","i">> THEN <<"-"," ">> \o c \o <<"\n">>
    ELSE IF tag = <<"a">> THEN <<"[">> \o c \o <<"]","(">> \o c \o <<")">>
    ELSE IF tag = <<"i","m","g">> THEN <<"!","[","I","m","a","g","e","]","(">> \o c \o <<")", "\n">>
    ELSE IF tag = <<"s","t","r","o","n","g">> THEN <<"*","*">> \o c \o <<"*","*">>
    ELSE IF tag = <<"e","m">> THEN <<"*">> \o c \o <<"*">>
    ELSE IF tag = <<"b","l","o","c","k","q","u","o","t","e">> THEN <<">"," ">> \o c \o <<"\n", "\n">>
    ELSE c \o <<"\n">>

\* what a flush of buffer b under context tag emits
TableFlush(tag, b) == IF Trim(b) = <<>> THEN <<>> ELSE TableFormat(tag, Trim(b))

\* the loop is at a '<'
AtTagStart == cv_pc = "loop" /\ i < Len(html) /\ html[i + 1] = "<"

(* C10: at each '<' the trimmed buffer is emitted in the format of the     *)
(* TagContext in effect at that moment, nothing is emitted for a buffer    *)
(* that is empty after trim, and the buffer is cleared; "<a>label</a>"     *)
(* gives "[label](label)" and the heading example gives                    *)
(* "# Title\n\nHello\n\n**world**".                                        *)
C10_FlushStep ==
    AtTagStart =>
        /\ current_content' = <<>>
        /\ \E tail \in {<<>>, <<"\n">>} :
              markdown' = markdown \o TableFlush(in_tag, current_content) \o tail

C10_Examples ==
    cv_pc = "returned" =>
        /\ html = HtmlLink => markdown = <<"[","l","a","b","e","l","]","(","l","a","b","e","l",")">>
        /\ html = HtmlHeading =>
              markdown = <<"#"," ","T","i","t","l","e">> \o <<"\n", "\n">> \o <<"H","e","l","l","o">> \o <<"\n", "\n">>
                         \o <<"*","*","w","o","r","l","d","*","*">>

C10_FlushRule == [][C10_FlushStep]_vars /\ [](C10_Examples)

C10_Witness ==
    /\ cv_pc = "returned" /\ html = HtmlHeading
    /\ markdown = <<"#"," ","T","i","t","l","e">> \o <<"\n", "\n">> \o <<"H","e","l","l","o">> \o <<"\n", "\n">> \o <<"*","*","w","o","r","l","d","*","*">>

-----------------------------------------------------------------------------
(* C11: at end of input the remaining buffered text is flushed with the    *)
(* rule of the TagContext that is current at that point, so "<h1>Title"    *)
(* gives "# Title\n\n".                                                    *)
C11_FinalFlushUsesContext ==
    cv_pc = "returned" =>
        /\ EndsWith(markdown, TableFlush(in_tag, current_content))
        /\ html = HtmlOpenHeading => markdown = <<"#"," ","T","i","t","l","e">> \o <<"\n", "\n">>

-----------------------------------------------------------------------------
(* save_markdown, one call                                                 *)

MaxSegments == 2

\* URLs: a scheme, a host, at most MaxSegments path segments and an optional
\* trailing slash
SaveUrls ==
    {scheme \o host \o Concat([k \in 1..Len(segs) |-> <<"/">> \o segs[k]]) \o slash :
        scheme \in {<<"h","t","t","p","s",":","/","/">>, <<"h","t","t","p",":","/","/">>},
        host \in {<<"x",".","c","o","m">>, <<"y",".","o","r","g">>},
        segs \in PieceSeqs({<<"a">>, <<"b">>, <<"c", "d">>}, MaxSegments),
        slash \in {<<>>, <<"/">>}}

\* the Markdown handed to save_markdown
SaveContents == {HtmlToMarkdown(HtmlLink)}

InitSave ==
    /\ sv_url \in SaveUrls /\ sv_files = {} /\ sv_pc = "call"
    /\ RobotsIdle /\ ConvIdle /\ CrawlIdle

\* lines 336-355: create_dir_all or fs::write may fail, and then nothing is saved
SaveCall ==
    /\ sv_pc = "call"
    /\ \E md \in SaveContents, io_ok \in BOOLEAN :
          sv_files' = IF io_ok THEN SaveMarkdown(sv_files, sv_url, md) ELSE sv_files
    /\ sv_pc' = "returned"
    /\ UNCHANGED <<sv_url, robots_vars, conv_vars, crawl_vars>>

NextSave == SaveCall

SpecSave == InitSave /\ [][NextSave]_vars

-----------------------------------------------------------------------------
(* The file name rule as the specification words it                        *)

\* the path segments of scheme://host/seg/seg: the pieces after the host
PathPieces(url) ==
    LET pieces == Split(url, "/") IN SubSeq(pieces, 4, Len(pieces))

NonEmptySegments(url) == SelectSeq(PathPieces(url), LAMBDA seg : seg # <<>>)

ExpectedFileName(url) ==
    LET segs == NonEmptySegments(url)
    IN  IF segs = <<>> THEN <<"i","n","d","e","x",".","m","d">> ELSE segs[Len(segs)] \o <<".","m","d">>

(* C12: the file name is the last non-empty path segment of the URL plus   *)
(* ".md", and "index.md" for a URL without path segments; so               *)
(* "https://x.com/a/b/" gives "b.md" and "https://x.com/" gives "index.md". *)
C12_FileNameDerivation ==
    sv_pc = "returned" =>
        \A f \in sv_files :
            /\ f.name = ExpectedFileName(sv_url)
            /\ sv_url = <<"h","t","t","p","s",":","/","/","x",".","c","o","m","/","a","/","b","/">> => f.name = <<"b",".","m","d">>
            /\ sv_url = <<"h","t","t","p","s",":","/","/","x",".","c","o","m","/">> => f.name = <<"i","n","d","e","x",".","m","d">>

\* C12 for the URLs that have a path segment
C12_HoldsWithPathSegment ==
    (sv_pc = "returned" /\ NonEmptySegments(sv_url) # <<>>) =>
        \A f \in sv_files : f.name = ExpectedFileName(sv_url)

-----------------------------------------------------------------------------
(* C13: the converter is total: on every input, also one that ends inside  *)
(* a tag, the scan index strictly increases on every loop iteration, no    *)
(* character is read beyond the input, and the loop is left with a result. *)
C13_IndexAdvances == (cv_pc = "loop" /\ i < Len(html)) => i' > i

C13_WithinInput ==
    /\ i <= Len(html) + 1
    \* the two inner loops stop at or before the end, so their last read is inside
    /\ AtTagStart =>
          /\ TagNameEnd(html, i + 1) <= Len(html)
          /\ TagEnd(html, TagNameEnd(html, i + 1)) <= Len(html)
    \* the loop is left only at the end of the input
    /\ cv_pc = "returned" => i >= Len(html)

C13_ConverterTotal == [][C13_IndexAdvances]_vars /\ [](C13_WithinInput)

C13_Witness ==
    /\ cv_pc = "returned" /\ html = HtmlOpenAttribute
    /\ i = Len(html) + 1 /\ markdown = <<>>

-----------------------------------------------------------------------------
(* C14: in the processing loop every URL of the final page set is          *)
(* attempted exactly once, a load or save failure does not stop or skip    *)
(* any later URL, a page whose load failed is never converted or saved,    *)
(* and run_crawler returns success.                                        *)
C14_Attempts ==
    /\ \A j, k \in 1..Len(processed) : j # k => processed[j] # processed[k]
    /\ Range(processed) \subseteq page_urls
    /\ loaded \subseteq Range(processed)
    /\ \A f \in files : \E u \in loaded : f.name = FileName(u)
    /\ (pc = "process" /\ Range(processed) # page_urls) => ENABLED ProcessPage
    /\ (pc = "done" /\ result = "ok") => Range(processed) = page_urls

C14_LoopStep ==
    pc = "process" =>
        /\ pc' \in {"process", "done"} /\ result' \in {"running", "ok"}
        /\ pc' = "done" => (result' = "ok" /\ Range(processed) = page_urls)
        /\ processed' = processed
              \/ \E u \in page_urls \ Range(processed) : processed' = Append(processed, u)

C14_PageFailuresIsolated == [](C14_Attempts) /\ [][C14_LoopStep]_vars

C14_Witness ==
    /\ pc = "done" /\ result = "ok" /\ Len(processed) >= 2
    /\ processed[1] \notin loaded /\ processed[2] \in loaded
    /\ \E f \in files : f.name = FileName(processed[2])
    /\ \A f \in files : f.name # FileName(processed[1])

-----------------------------------------------------------------------------
\* the <loc> texts of the sitemap documents fetched so far
FetchedLocTexts ==
    UNION {LocValues(FetchSitemap(world, fetched[k]).events) : k \in 1..Len(fetched)}

(* C16: only text between a <loc> start and its matching </loc> can become *)
(* a sitemap reference: text inside another element or between elements   *)
(* is never inserted into the page set and never recursed into, also in    *)
(* documents with an empty <loc></loc>.                                    *)
C16_OnlyLocTextIsReference ==
    /\ all_urls \subseteq FetchedLocTexts
    /\ \A k \in 1..Len(fetched) :
          fetched[k] \in Range(roots) \/ fetched[k] \in FetchedLocTexts

\* C16 for the documents without an empty <loc></loc>
C16_HoldsWithoutEmptyLoc ==
    world.sitemaps # SiteEmptyLoc => C16_OnlyLocTextIsReference

-----------------------------------------------------------------------------
\* the positions after the '<' at i + 1 that hold a space or a '>'
NameStops == {k \in (i + 2)..Len(html) : html[k] \in {" ", ">"}}

\* the name of the tag at i + 1: the characters after '<' up to the first
\* space or '>', or up to the end of the input
NameAtIndex ==
    IF NameStops = {} THEN SubSeq(html, i + 2, Len(html))
    ELSE SubSeq(html, i + 2, (CHOOSE k \in NameStops : \A m \in NameStops : k <= m) - 1)

TableTags == {<<"h","1">>, <<"h","2">>, <<"p">>, <<"l","i">>, <<"a">>, <<"i","m","g">>, <<"s","t","r","o","n","g">>, <<"e","m">>, <<"b","l","o","c","k","q","u","o","t","e">>}
BreakTags == {<<"b","r">>, <<"u","l">>, <<"o","l">>}

(* C17: after a closing tag the TagContext is none; an opening recognized  *)
(* tag, with or without attributes, replaces it; any other tag except br, *)
(* ul, ol sets it to none; characters outside tags leave it alone; and     *)
(* "<p>Hello <strong>world</strong> tail</p>" formats " tail" with the     *)
(* fallback rule.                                                          *)
C17_ContextStep ==
    /\ AtTagStart =>
          /\ (NameAtIndex # <<>> /\ NameAtIndex[1] = "/") => in_tag' = NoTag
          /\ NameAtIndex \in TableTags => in_tag' = NameAtIndex
          /\ (NameAtIndex \notin TableTags \cup BreakTags) => in_tag' = NoTag
    /\ (cv_pc = "loop" /\ ~AtTagStart) => in_tag' = in_tag

C17_NestedExample ==
    (cv_pc = "returned" /\ html = HtmlNested) =>
        markdown = <<"H","e","l","l","o">> \o <<"\n", "\n">> \o <<"*","*","w","o","r","l","d","*","*">> \o <<"t","a","i","l">> \o <<"\n">>

C17_SingleSlotContext == [][C17_ContextStep]_vars /\ [](C17_NestedExample)

C17_Witness ==
    /\ cv_pc = "returned" /\ html = HtmlNested
    /\ in_tag = NoTag
    /\ markdown = <<"H","e","l","l","o">> \o <<"\n", "\n">> \o <<"*","*","w","o","r","l","d","*","*">> \o <<"t","a","i","l">> \o <<"\n">>

(* C18: br, ul and ol each append exactly one "\n" after the flush,       *)
(* whatever the TagContext is, and leave the TagContext unchanged; text    *)
(* after a <br> inside a <p> is formatted as p, and                        *)
(* "<ul><li>a</li><li>b</li></ul>" gives "\n- a\n- b\n".                   *)
C18_BreakStep ==
    (AtTagStart /\ NameAtIndex \in BreakTags) =>
        /\ markdown' = markdown \o TableFlush(in_tag, current_content) \o <<"\n">>
        /\ in_tag' = in_tag

C18_BreakExamples ==
    cv_pc = "returned" =>
        /\ html = HtmlList => markdown = <<"\n">> \o <<"-"," ","a">> \o <<"\n">> \o <<"-"," ","b">> \o <<"\n">>
        /\ html = HtmlBreak => markdown = <<"a">> \o <<"\n", "\n", "\n">> \o <<"b">> \o <<"\n", "\n">>

C18_LineBreakTags == [][C18_BreakStep]_vars /\ [](C18_BreakExamples)

C18_Witness ==
    /\ cv_pc = "returned" /\ html = HtmlList
    /\ markdown = <<"\n">> \o <<"-"," ","a">> \o <<"\n">> \o <<"-"," ","b">> \o <<"\n">>

-----------------------------------------------------------------------------
\* the text ends with the four characters ".xml"
HasXmlSuffix(u) == Len(u) >= 4 /\ SubSeq(u, Len(u) - 3, Len(u)) = <<".","x","m","l">>

\* the top frame is at a </loc> that closes a non-empty reference
AtReferenceEnd ==
    /\ pc = "expand" /\ stack # <<>> /\ ret = "none"
    /\ Top.pos <= Len(Top.events)
    /\ Top.events[Top.pos].t = "End" /\ Top.events[Top.pos].v = <<"l","o","c">>
    /\ Top.current_url # <<>>

(* C19: classification is by suffix alone: no discovered page ends with    *)
(* ".xml"; every sitemap fetched below the roots ends with ".xml"; at the  *)
(* </loc> of a reference, a value ending in ".xml" is recursed into and    *)
(* not inserted, any other value is inserted and not fetched.              *)
C19_Sets ==
    /\ \A u \in all_urls : ~HasXmlSuffix(u)
    /\ \A k \in 1..Len(fetched) :
          fetched[k] \in Range(roots) \/ HasXmlSuffix(fetched[k])

C19_ReferenceStep ==
    AtReferenceEnd =>
        IF HasXmlSuffix(Top.current_url)
        THEN /\ all_urls' = all_urls
             /\ \/ fetched' = Append(fetched, Top.current_url)
                \/ result' = "overflow"
        ELSE /\ all_urls' = all_urls \cup {Top.current_url}
             /\ fetched' = fetched

C19_SuffixClassification == [](C19_Sets) /\ [][C19_ReferenceStep]_vars

C19_Witness ==
    /\ pc = "done" /\ result = "ok"
    /\ all_urls # {}
    /\ \E k \in 1..Len(fetched) :
          fetched[k] \notin Range(roots) /\ HasXmlSuffix(fetched[k])

====
